---- MODULE Spec2Model ----
(***************************************************************************)
(* Retry/backoff engine of gemini_wrapper.client.GeminiAsyncClient:        *)
(* the non-streaming executor _request, the streaming executor             *)
(* _stream_request and the retry classifier, as a state machine whose      *)
(* steps are the code segments between two suspension points (awaits).     *)
(***************************************************************************)
EXTENDS Integers, Sequences, FiniteSets, TLC

\* ---------------------------------------------------------------- bounds
MaxBudget == 2          \* largest retry budget explored
MaxChunks == 2          \* chunks read from one streamed body
ConcBudget == 1         \* largest retry budget when calls are interleaved
MaxAttempt == 4         \* largest attempt given to the delay computer alone
MaxCloses == 2          \* explicit aclose calls on one client
MaxKeyLen == 9          \* longest credential whose redaction is explored

\* the calls that may run on the one client; interference between calls
\* is a property of pairs, so two interleaved calls are explored
CallIds == {1, 2}

\* ------------------------------------------------------------- constants
RetryStatusWith500 == {429, 500, 502, 503, 504}
RetryStatusNo504 == {429, 502, 503}
_RETRY_STATUS == {429, 502, 503, 504}

\* Durations are counted in quarter seconds.
_DEFAULT_BACKOFF_BASE == 4      \* 1.0 s
_MAX_BACKOFF_SECONDS == 240     \* 60.0 s
\* the floats that are no durations: float('nan') and float('inf')
NaN == -1000000
Inf == 1000000

\* A Retry-After header value, by what the two parsers make of it:
\*   absent   no header (None)          empty    the empty string
\*   seconds  float() gives val         nan/inf  float() gives nan / inf
\*   date     an HTTP date, val = target - now
\*   baddate  a date whose zone offset overflows (parsedate_to_datetime
\*            raises OverflowError)
\*   garbage  neither parser accepts it
Hint(f, v) == [form |-> f, val |-> v]
NoHint == Hint("absent", 0)
AllHints ==
    {NoHint, Hint("empty", 0), Hint("garbage", 0), Hint("baddate", 0),
     Hint("nan", 0), Hint("inf", 0)}
    \cup {Hint("seconds", v) : v \in {-20, 0, 8, 1000}}
    \cup {Hint("date", v) : v \in {-40, 8, 1000}}
\* the headers the transport sends to the executors
ExecHints == {NoHint, Hint("seconds", 8), Hint("garbage", 0),
              Hint("baddate", 0), Hint("nan", 0)}
\* values of random.random(): 0, 1/2 and 1 (in halves)
Draws == {0, 1, 2}

\* statuses the simulated transport may answer (2xx, 4xx and 5xx)
Statuses == {200, 400, 401, 403, 404, 429, 500, 502, 503, 504}
\* sub-causes of a transport-level failure (all httpx.RequestError)
TransportErrors == {"ConnectError", "ReadTimeout"}
\* bodies of a non-streaming response: empty, a JSON document, other text
Contents == {"", "{}", "<html>"}
\* texts of a streamed chunk; "" is the empty chunk
ChunkTexts == {"", "a"}

\* exceptions the caller's callback may raise (not transport failures)
ConsumerErrors == {"ConsumerError"}

\* what the simulated transport and the consumer may do
FullTransport ==
    [ statuses |-> Statuses, errors |-> TransportErrors,
      contents |-> Contents, chunks |-> ChunkTexts, maxChunks |-> MaxChunks,
      hints |-> ExecHints, draws |-> {0, 2},
      consumerErrors |-> ConsumerErrors ]
\* the reduced repertoire used when several calls are interleaved
ConcTransport ==
    [ statuses |-> {200, 404, 503}, errors |-> {"ReadTimeout"},
      contents |-> {"{}"}, chunks |-> {"a"}, maxChunks |-> 1,
      hints |-> {NoHint, Hint("nan", 0)}, draws |-> {0},
      consumerErrors |-> ConsumerErrors ]

\* the repertoire used when termination is checked: a success, a terminal
\* and two retryable statuses, a transport failure, and the headers that
\* make the delay computer or the sleep fail
LiveTransport ==
    [ statuses |-> {200, 404, 429, 503}, errors |-> {"ReadTimeout"},
      contents |-> {"{}"}, chunks |-> {"a"}, maxChunks |-> 1,
      hints |-> {NoHint, Hint("baddate", 0), Hint("nan", 0)}, draws |-> {0},
      consumerErrors |-> ConsumerErrors ]

\* ----------------------------------------------------- exception classes
\* Parent class of each exception class that can reach the executors.
ExcParent(e) ==
    CASE e = "ConnectError"    -> "RequestError"
      [] e = "ReadTimeout"     -> "RequestError"
      [] e = "RequestError"    -> "Exception"
      [] e = "HTTPStatusError" -> "Exception"
      [] e = "ConsumerError"   -> "Exception"
      [] e = "ValueError"      -> "Exception"
      [] e = "RuntimeError"    -> "Exception"
      [] e = "Exception"       -> "BaseException"
      [] e = "CancelledError"  -> "BaseException"
      [] OTHER                 -> "object"

RECURSIVE IsSubclass(_, _)
IsSubclass(e, h) ==
    IF e = h THEN TRUE
    ELSE IF e = "object" \/ e = "BaseException" THEN FALSE
    ELSE IsSubclass(ExcParent(e), h)

\* 'except Exception' clause of the drain step, as a pre-3.8 interpreter
\* (CancelledError deriving from Exception) or a bare 'except:' would act.
CatchesDrainBare(e) == IsSubclass(e, "BaseException")
\* 'except Exception: pass' around response.aread()
CatchesDrain(e) == IsSubclass(e, "Exception")
\* 'except httpx.TimeoutException' in place of the clause below
CatchesTimeoutOnly(e) == IsSubclass(e, "ReadTimeout")
\* 'except Exception' in place of the clause below
CatchesAnyException(e) == IsSubclass(e, "Exception")
\* 'except httpx.RequestError' of both executors
CatchesRequestError(e) == IsSubclass(e, "RequestError")

\* ---------------------------------------------------------------- events
NoExc == "none"
Resp(s) == [exc |-> NoExc, status |-> s]        \* a response was received
Fail(e) == [exc |-> e, status |-> 0]            \* no response: exception e
NoError == [exc |-> NoExc, status |-> 0]
HTTPStatusError(s) == [exc |-> "HTTPStatusError", status |-> s]

IsSuccess(s) == s >= 200 /\ s <= 299

\* response.raise_for_status(): the error raised for status s, or NoError
RaiseForStatusOnly4xx(s) ==
    IF s >= 400 /\ s <= 499 THEN HTTPStatusError(s) ELSE NoError
RaiseForStatusRateLimit(s) ==
    IF IsSuccess(s) THEN NoError
    ELSE HTTPStatusError(IF s \in _RETRY_STATUS THEN 429 ELSE s)
RaiseForStatusNever(s) == NoError
RaiseForStatus(s) ==
    IF IsSuccess(s) THEN NoError ELSE HTTPStatusError(s)

\* ------------------------------------------------------------- variables
VARIABLES
    max_retries,    \* self._max_retries after __init__
    callers,        \* the calls the caller's program makes
    transport,      \* what the transport may answer: statuses, failures, bodies
    attempt,        \* the local variable 'attempt', one slot per frame
    call,           \* per call: position, outcome and observation history
    backoff_base,           \* self._backoff_base
    max_backoff_seconds,    \* self._max_backoff_seconds
    dc,             \* one application of the delay computer on its own
    facade,         \* the client object, its Settings and its httpx client
    lg,             \* one log record of an executor, with the credential in use
    sync,           \* the blocking wrapper GeminiClient
    gen             \* one run of generate of the user interface

vars == <<max_retries, callers, transport, attempt, call,
          backoff_base, max_backoff_seconds, dc, facade, lg, sync, gen>>

\* ----------------------------------------------------- retry classifier
ShouldRetryResponseInclusive(s, a) ==
    IF s \notin _RETRY_STATUS THEN FALSE ELSE a <= max_retries
_should_retry_response(s, a) ==
    IF s \notin _RETRY_STATUS THEN FALSE ELSE a < max_retries

ShouldRetryExceptionInclusive(a) == a <= max_retries
\* a classifier that does not look at the budget of the client
ShouldRetryExceptionUnbudgeted(a) == a <= MaxBudget
_should_retry_exception(a) == a < max_retries

\* ------------------------------------------------------- delay computer
\* Python's max(a, b) and min(a, b): a is returned unless b compares
\* greater (smaller), and every comparison with nan is false.
PyMax(a, b) == IF a = NaN THEN NaN ELSE IF b > a THEN b ELSE a
PyMin(a, b) == IF a = NaN THEN NaN ELSE IF b < a THEN b ELSE a

Parsed(v) == [exc |-> NoExc, none |-> FALSE, val |-> v]
ParsedNone == [exc |-> NoExc, none |-> TRUE, val |-> 0]
ParseRaises(e) == [exc |-> e, none |-> TRUE, val |-> 0]

\* float(value): the number, or "ValueError"
FloatOf(h) ==
    CASE h.form = "seconds" -> Parsed(h.val)
      [] h.form = "nan"     -> Parsed(NaN)
      [] h.form = "inf"     -> Parsed(Inf)
      [] OTHER              -> ParseRaises("ValueError")

\* parsedate_to_datetime(value) followed by target - now
DateDeltaOf(h) ==
    CASE h.form = "date"    -> Parsed(h.val)
      [] h.form = "baddate" -> ParseRaises("OverflowError")
      [] OTHER              -> ParseRaises("ValueError")

\* _parse_retry_after(value): seconds, None, or an exception that is
\* neither ValueError nor TypeError and so leaves the function
_parse_retry_after(h) ==
    LET f == FloatOf(h)
        d == DateDeltaOf(h)
    IN  IF f.exc = NoExc THEN Parsed(PyMax(f.val, 0))
        ELSE IF d.exc = NoExc THEN Parsed(PyMax(d.val, 0))
        ELSE IF d.exc \in {"ValueError", "TypeError"} THEN ParsedNone
        ELSE ParseRaises(d.exc)

\* 'if retry_after:' - the header is present and not the empty string
Truthy(h) == h.form \notin {"absent", "empty"}

\* min(delay, self._max_backoff_seconds) of a parsed hint
CapHintNone(d) == d
CapHint(d) == PyMin(d, max_backoff_seconds)

\* base_delay = min(self._backoff_base * (2 ** attempt), self._max_backoff_seconds)
ExpBackoff(a) == PyMin(backoff_base * (2 ^ a), max_backoff_seconds)

\* jitter = random.uniform(0, base_delay * 0.25) for the draw u
JitterHalf(b, u) == (u * (b \div 2)) \div 2
Jitter(b, u) == (u * (b \div 4)) \div 2

Delay(v) == [exc |-> NoExc, val |-> v]
DelayRaises(e) == [exc |-> e, val |-> 0]

\* _compute_delay(attempt, response) for the response's header h and draw u
_compute_delay(a, h, u) ==
    LET p == _parse_retry_after(h)
        b == ExpBackoff(a)
    IN  IF Truthy(h) /\ p.exc # NoExc THEN DelayRaises(p.exc)
        ELSE IF Truthy(h) /\ ~p.none THEN Delay(CapHint(p.val))
        ELSE Delay(b + Jitter(b, u))

\* ------------------------------------------------------------ call state
\* The frame that holds call c's local variable 'attempt'.
SharedFrame(c) == 1
Frame(c) == c

NoDelay == -1
\* values a call hands back: nothing yet, None, a parsed JSON document
\* (named by its text) and the wrapper {"raw": text}
Value(kind, payload) == [kind |-> kind, payload |-> payload]
NoValue == Value("none", "")
PyNone == Value("None", "")
Json(t) == Value("json", t)
EmptyMap == Json("{}")
Raw(t) == Value("raw", t)
Unread == "unread"
NoDecision == [made |-> FALSE, ev |-> NoError, attempt |-> 0, retry |-> FALSE]
Decision(ev, a, b) == [made |-> TRUE, ev |-> ev, attempt |-> a, retry |-> b]

IdleCall ==
    [ pc        |-> "idle",     \* idle, net, drain, wait_s, wait_e, body, done
      kind      |-> "none",     \* "request" (_request) or "stream" (_stream_request)
      sent      |-> 0,          \* requests issued so far
      waits     |-> 0,          \* retry waits started so far
      hist      |-> <<>>,       \* outcome of every request that completed
      decision  |-> NoDecision, \* last answer of the retry classifier
      raised    |-> NoError,    \* the error propagated to the caller
      returned  |-> NoValue,    \* the value returned to the caller
      content   |-> Unread,     \* body of the response read at the return
      arrived   |-> <<>>,       \* chunks read from the current streamed body
      delivered |-> <<>>,       \* chunks passed to the consumer: <<request, text>>
      firstByte |-> -1,         \* attempt counter at the first delivery
      cancelledAt |-> "no",     \* where the caller's cancellation hit the call
      drained   |-> "no",       \* outcome of the drain of the current response
      logs      |-> 0,          \* retry log records emitted so far
      consumer  |-> "ok",       \* the exception the callback raised, if any
      retry_after |-> NoHint,   \* Retry-After header of the response being retried
      delay     |-> NoDelay ]   \* the delay of the current retry wait

Last(h) == h[Len(h)]

\* the exception e leaves the executor: the call ends with it
Raise(r, e) == [r EXCEPT !.pc = "done", !.raised = e]
\* return v to the caller
Return(r, v) == [r EXCEPT !.pc = "done", !.returned = v]
\* compute the delay, log the retry and suspend in asyncio.sleep
Sleep(r, site) == [r EXCEPT !.pc = site, !.logs = @ + 1, !.waits = @ + 1]

\* delay = self._compute_delay(attempt, response), self._log_retry(...),
\* await asyncio.sleep(delay), where an exception of the delay computer
\* leaves the executor; r.retry_after is the header of the response
Backoff(r, a, u, site) ==
    LET d == _compute_delay(a, r.retry_after, u)
    IN  IF d.exc # NoExc THEN Raise(r, Fail(d.exc))
        ELSE Sleep([r EXCEPT !.delay = d.val], site)

\* body of 'except httpx.RequestError as exc' in both executors
OnRequestError(r, a, x, u) ==
    LET b  == _should_retry_exception(a)
        r1 == [r EXCEPT !.decision = Decision(x, a, b), !.retry_after = NoHint]
    IN  IF ~b THEN Raise(r1, x) ELSE Backoff(r1, a, u, "wait_e")

\* an error x raised at a point guarded by 'except httpx.RequestError'
ThrowGuarded(r, a, x, u) ==
    IF CatchesRequestError(x.exc) THEN OnRequestError(r, a, x, u) ELSE Raise(r, x)

\* the same three statements inside the 'try' of _stream_request
BackoffGuarded(r, a, u) ==
    LET d == _compute_delay(a, r.retry_after, u)
    IN  IF d.exc # NoExc THEN ThrowGuarded(r, a, Fail(d.exc), u)
        ELSE Sleep([r EXCEPT !.delay = d.val], "wait_s")

\* a retryable stream response goes on to the retry wait undrained
DrainSkipped(r, a) == BackoffGuarded(r, a, 0)
\* 'await response.aread()' of the drain step is entered
Drain(r, a) == [r EXCEPT !.pc = "drain"]

\* attempt += 1
IncrementTwice(a) == a + 2
Increment(a) == a + 1

\* value returned for a 2xx response with the given body
ParsesAlways(content) == TRUE
\* response.json() succeeds
ParsesAsJson(content) == content = "{}"
NormaliseNoEmptyCheck(content) ==
    IF ParsesAsJson(content) THEN Json(content) ELSE Raw(content)
Normalise(content) ==
    IF content = "" THEN EmptyMap
    ELSE IF ParsesAsJson(content) THEN Json(content)
    ELSE Raw(content)

\* --------------------------------------------------------- client facade
\* None for a str-valued argument or field
None == "None"
\* the fields of Settings that __init__ can override
OverrideFields == {"api_key", "endpoint", "timeout", "max_retries", "project"}
\* no Settings object was passed
NoSettings ==
    [ api_key |-> None, endpoint |-> None, timeout |-> 0, max_retries |-> 0,
      project |-> None, paths |-> None ]
\* the Settings object of the caller's program
CallerSettings ==
    [ api_key |-> "caller-key", endpoint |-> "https://caller", timeout |-> 30,
      max_retries |-> 1, project |-> None, paths |-> "EndpointPaths()" ]
\* Settings.from_env(paths=paths)
from_env(paths) ==
    [ api_key |-> "env-key", endpoint |-> "https://env", timeout |-> 30,
      max_retries |-> 1, project |-> None,
      paths |-> IF paths # None THEN paths ELSE "EndpointPaths()" ]
\* the value of the keyword argument for field f when it is given
Override ==
    [ api_key |-> "OVERRIDE", endpoint |-> "https://other", timeout |-> 5,
      max_retries |-> 0, project |-> "proj" ]
\* dataclasses.replace(settings, paths=paths): a new object
replace(settings, paths) == [settings EXCEPT !.paths = paths]
\* settings.f = value for every keyword argument given
ApplyOverrides(settings, over) ==
    [ f \in DOMAIN settings |->
        IF f \in over THEN Override[f] ELSE settings[f] ]
\* settings.endpoint = getattr(settings, "endpoint", default) for a falsy
\* endpoint: the attribute exists, so its own value is written back; timeout
\* and max_retries of a Settings object are numbers and are left alone
ApplyDefaults(settings) ==
    [settings EXCEPT !.endpoint = settings.endpoint]
\* self._owns_client
OwnsClientAlways(injected) == TRUE
OwnsClient(injected) == ~injected
\* int(settings.max_retries), raised to 0 when negative
SafeMaxRetries(n) == IF n < 0 THEN 0 ELSE n

\* a Python value given for a keyword argument: its type and, for a
\* number, its value (durations in quarter seconds; 1.5 is kept as 1)
PyV(t, v) == [t |-> t, v |-> v]
NoArg == PyV("NoneType", 0)
NoArgs == [max_retries_override |-> NoArg, backoff_base |-> NoArg,
           max_backoff_seconds |-> NoArg]
\* isinstance(x, int) and isinstance(x, (int, float)); bool derives from int
IsInt(x) == x.t \in {"int", "bool"}
IsNumber(x) == x.t \in {"int", "bool", "float"}
\* v <= 0, False for nan
NonPositive(v) == v # NaN /\ v <= 0

\* self._max_retries: the override if given, else int(settings.max_retries);
\* 0 when not an int or negative
EffectiveMaxRetries(mro, n) ==
    LET x == IF mro # NoArg THEN mro ELSE PyV("int", n)
    IN  IF ~IsInt(x) THEN 0 ELSE SafeMaxRetries(x.v)
\* self._backoff_base and self._max_backoff_seconds: the argument if given,
\* else the default d; d when not a number or <= 0
EffectiveBackoff(arg, d) ==
    LET x == IF arg # NoArg THEN arg ELSE PyV("float", d)
    IN  IF ~IsNumber(x) \/ NonPositive(x.v) THEN d ELSE x.v

\* the objects before the client is constructed: 'caller' is the caller's
\* Settings object, 'given' its value when it was passed to __init__
NewFacade(given) ==
    [ state |-> "new", given |-> given, caller |-> given,
      alias |-> FALSE, settings |-> NoSettings,
      injected |-> FALSE, owns_client |-> FALSE,
      client |-> "open", released |-> 0, closes |-> 0, exits |-> 0,
      args |-> NoArgs ]

\* GeminiAsyncClient(given, paths=paths, async_client=..., **over)
__init__(f, paths, over, injected) ==
    LET fresh == f.given = NoSettings \/ paths # None
        s0 == IF f.given = NoSettings THEN from_env(paths)
              ELSE IF paths # None THEN replace(f.caller, paths)
              ELSE f.caller
        s1 == ApplyDefaults(ApplyOverrides(s0, over))
    IN  [f EXCEPT !.state = "built",
                  !.alias = ~fresh,
                  !.settings = s1,
                  !.caller = IF fresh THEN @ ELSE s1,
                  !.injected = injected,
                  !.owns_client = OwnsClient(injected),
                  !.client = "open"]

\* httpx.AsyncClient.aclose: the transport is released on the first call only
HttpxAcloseUnguarded(f) == [f EXCEPT !.client = "closed", !.released = @ + 1]
HttpxAclose(f) ==
    IF f.client # "closed"
    THEN [f EXCEPT !.client = "closed", !.released = @ + 1]
    ELSE f

\* GeminiAsyncClient.aclose
aclose(f) == IF f.owns_client THEN HttpxAclose(f) ELSE f

\* the client of the other specifications: GeminiAsyncClient()
DefaultFacade == __init__(NewFacade(NoSettings), None, {}, FALSE)

\* ------------------------------------------------------------ log records
\* A credential and a logged text are sequences of characters.
KeyChars == {"a", "*"}
Keys == UNION {[1..n -> KeyChars] : n \in 0..MaxKeyLen}
\* the value None where a text is expected
Absent == <<"None">>
Stars == <<"*", "*", "*", "*">>
Dots == <<".", ".", ".">>

\* redact_api_key(key) of client.py
redact_api_key(key) ==
    IF Len(key) = 0 THEN Absent
    ELSE IF Len(key) <= 8 THEN Stars
    ELSE SubSeq(key, 1, 4) \o Dots \o SubSeq(key, Len(key) - 3, Len(key))

\* the text "<missing>"
Missing == <<"<", "m", "i", "s", "s", "i", "n", "g", ">">>
\* the shortest value of which redact_api_key of utils.py shows characters
ShowsFrom(value) == Len(value) > 4

\* redact_api_key(value) of utils.py
utils_redact_api_key(value) ==
    IF Len(value) = 0 THEN Missing
    ELSE IF ~ShowsFrom(value) THEN Stars
    ELSE SubSeq(value, 1, 4) \o Dots \o SubSeq(value, Len(value) - 3, Len(value))

\* the record of self._logger.warning("retrying request", extra={...})
_log_retry(a, status, error, key) ==
    [ msg |-> "retrying request", attempt |-> a + 1, status |-> status,
      api_key |-> redact_api_key(key), error |-> error ]
\* the records of self._logger.debug(...): no field for the credential
DebugRecord(msg, status, error) ==
    [ msg |-> msg, attempt |-> 0, status |-> status,
      api_key |-> Absent, error |-> error ]

\* the places of both executors that emit a record
LogSites == {"response received", "request error", "retry status", "retry error"}
RecordAt(site, key) ==
    CASE site = "response received" -> DebugRecord(site, 503, NoExc)
      [] site = "request error"     -> DebugRecord(site, 0, "ReadTimeout")
      [] site = "retry status"      -> _log_retry(0, 503, NoExc, key)
      [] OTHER                      -> _log_retry(0, 0, "ReadTimeout", key)

NoLog == [phase |-> "off", key |-> <<>>, site |-> "retry status",
          rec |-> DebugRecord("none", 0, NoExc)]
\* no blocking wrapper was built
NoWrapper ==
    [ state |-> "none", closed |-> FALSE, started |-> 0, ran |-> 0,
      closes |-> 0, exits |-> 0, error |-> NoExc ]

\* ------------------------------------------------- generate of app.py
max_attempts == 3
\* Waits are counted in tenths of a second.
base_delay == 6         \* 0.6 s
MaxWait == 300          \* 30.0 s
\* random.random() in tenths: a float of [0, 1)
Randoms == {0, 9}

\* str values: a text is a sequence of characters
Str(text) == PyV("str", text)
PyNoneValue == PyV("NoneType", <<"N", "o", "n", "e">>)
\* str(x)
StrOf(x) == Str(x.v)
\* bool(x)
Bool(x) ==
    CASE x.t = "NoneType" -> FALSE
      [] x.t = "str"      -> x.v # <<>>
      [] OTHER            -> x.v # <<"0">>

\* sub in text
Contains(sub, text) ==
    \E i \in 1..(Len(text) - Len(sub) + 1) : SubSeq(text, i, i + Len(sub) - 1) = sub

RECURSIVE lstrip(_)
lstrip(text) ==
    IF text # <<>> /\ Head(text) = " " THEN lstrip(Tail(text)) ELSE text
RECURSIVE rstrip(_)
rstrip(text) ==
    IF text # <<>> /\ text[Len(text)] = " "
    THEN rstrip(SubSeq(text, 1, Len(text) - 1)) ELSE text
\* prompt.strip()
strip(text) == rstrip(lstrip(text))
\* 'not prompt or not prompt.strip()'
NoPrompt(prompt) == prompt = <<>> \/ strip(prompt) = <<>>

\* the prompts of the user interface
Prompts == {<<>>, <<" ">>, <<" ", " ">>, <<"h", "i">>, <<" ", "h">>}

\* what complete may raise: class, status of e.response (0: the exception
\* has no response) and str(e)
Messages == {<<"x">>, <<"1", "4", "2", "9">>}
Errors ==
    [cls : {"HTTPStatusError"}, status : {404, 429, 500, 502, 503, 504},
     msg : Messages]
    \cup [cls : {"ValueError", "CancelledError"}, status : {0}, msg : Messages]
NoErr == [cls |-> NoExc, status |-> 0, msg |-> <<>>]
\* get_client() raises RuntimeError
ClientError == [cls |-> "RuntimeError", status |-> 0, msg |-> <<"no client">>]

\* what complete may return: None, a str, or a dict of one of the shapes
\* that extract_text tells apart, val being the value at the place read
Values == {Str(<<"o", "k">>), Str(<<>>), PyV("int", <<"5">>), PyNoneValue}
Shaped(shape, val) == [shape |-> shape, val |-> val]
Responses ==
    {Shaped("None", PyNoneValue), Shaped("dict", Str(<<"{", "}">>))}
    \cup {Shaped("str", v) : v \in {w \in Values : w.t = "str"}}
    \cup {Shaped(sh, v) : sh \in {"candidates", "choices", "output"}, v \in Values}
NoResp == Shaped("none", PyNoneValue)
\* str(response) of a dict
StrOfDict(r) ==
    IF r.shape = "dict" THEN r.val
    ELSE Str(<<"{", r.shape, ":">> \o r.val.v \o <<"}">>)

\* "".join(...) over the parts: TypeError for a text that is no str
Join(r) == IF r.val.t = "str" THEN r.val ELSE StrOfDict(r)
\* first.get("text") or first.get("message", {}).get("content") or str(first)
FirstChoice(r) == IF Bool(r.val) THEN r.val ELSE StrOfDict(r)

\* extract_text(response)
extract_text(r) ==
    CASE r.shape = "None"       -> Str(<<>>)
      [] r.shape = "str"        -> r.val
      [] r.shape = "candidates" -> Join(r)
      [] r.shape = "choices"    -> FirstChoice(r)
      [] r.shape = "output"     -> IF r.val.t = "str" THEN r.val ELSE StrOf(r.val)
      [] OTHER                  -> StrOfDict(r)

\* "429" in msg or e.response.status_code == 429
is_429(e) == Contains(<<"4", "2", "9">>, e.msg) \/ e.status = 429
\* e.response.status_code in (502, 503, 504)
is_server_err(e) == e.status \in {502, 503, 504}
\* 'except Exception as e'
CatchesGenerate(e) == IsSubclass(e.cls, "Exception")

Pow2(n) == IF n = 0 THEN 1 ELSE IF n = 1 THEN 2 ELSE 4
\* min(30.0, base_delay * (2 ** (attempt - 1))) + random.random()
wait(a, rnd) ==
    (IF base_delay * Pow2(a - 1) < MaxWait THEN base_delay * Pow2(a - 1) ELSE MaxWait)
        + rnd

ErrorPrefix == <<"E", "r", "r", "o", "r", ":", " ">>
\* f"Error: {e}"
ErrorText(e) == Str(ErrorPrefix \o e.msg)
\* the text returned after the loop
Unavailable == Str(ErrorPrefix \o <<"rate limited or unavailable">>)

NoResult == [kind |-> "none", val |-> PyNoneValue, exc |-> NoErr]
Returned(v) == [kind |-> "return", val |-> v, exc |-> NoErr]
Raised(e) == [kind |-> "raise", val |-> PyNoneValue, exc |-> e]
\* an outcome of complete
Outcome(e, r) == [exc |-> e, resp |-> r]

\* no run of generate
NoGen ==
    [ pc |-> "off", prompt |-> <<>>, client |-> "cached", attempt |-> 0,
      hist |-> <<>>, slept |-> <<>>, pending |-> 0, result |-> NoResult ]

\* ------------------------------------------------------------------ Init
\* the delay computer has not been applied on its own
NoDelayCall ==
    [ phase |-> "off", attempt |-> 0, hint |-> NoHint, draw |-> 0,
      out |-> Delay(NoDelay) ]

InitCommon ==
    /\ attempt = [c \in CallIds |-> 0]
    /\ call = [c \in CallIds |-> IdleCall]
    /\ lg = NoLog
    /\ sync = NoWrapper
    /\ gen = NoGen

\* the backoff parameters when __init__ gets no override
InitDefaults ==
    /\ backoff_base = _DEFAULT_BACKOFF_BASE
    /\ max_backoff_seconds = _MAX_BACKOFF_SECONDS
    /\ dc = NoDelayCall
    /\ facade = DefaultFacade

Init ==
    /\ InitCommon
    /\ max_retries \in 0..MaxBudget
    /\ callers = {1}
    /\ transport = FullTransport
    /\ InitDefaults

InitConc ==
    /\ InitCommon
    /\ max_retries \in 0..ConcBudget
    /\ callers = CallIds
    /\ transport = ConcTransport
    /\ InitDefaults

\* --------------------------------------------------------------- actions
Keep == UNCHANGED <<max_retries, callers, transport,
                    backoff_base, max_backoff_seconds, dc, facade, lg, sync, gen>>

\* entry of _request / _stream_request up to the first await: attempt = 0,
\* then the first request is issued
Start(c, k) ==
    /\ c \in callers
    /\ facade.state = "built" /\ facade.client = "open"
    /\ call[c].pc = "idle"
    /\ attempt' = [attempt EXCEPT ![Frame(c)] = 0]
    /\ call' = [call EXCEPT ![c] = [@ EXCEPT !.pc = "net", !.kind = k, !.sent = 1]]
    /\ Keep

\* _request: self._client.request raises a transport failure
RequestFails(c, e, u) ==
    /\ call[c].pc = "net" /\ call[c].kind = "request"
    /\ e \in transport.errors /\ u \in transport.draws
    /\ LET r == [call[c] EXCEPT !.hist = Append(@, Fail(e))]
       IN  call' = [call EXCEPT ![c] = ThrowGuarded(r, attempt[Frame(c)], Fail(e), u)]
    /\ UNCHANGED attempt
    /\ Keep

\* _request: a response with status s arrives
RequestResponds(c, s, content, h, u) ==
    /\ call[c].pc = "net" /\ call[c].kind = "request"
    /\ s \in transport.statuses
    /\ content \in transport.contents
    /\ h \in transport.hints /\ u \in transport.draws
    /\ LET a  == attempt[Frame(c)]
           b  == _should_retry_response(s, a)
           r  == [call[c] EXCEPT !.hist = Append(@, Resp(s)),
                                 !.decision = Decision(Resp(s), a, b),
                                 !.retry_after = IF b THEN h ELSE NoHint]
           err == RaiseForStatus(s)
       IN  call' = [call EXCEPT ![c] =
                IF b THEN Backoff(r, a, u, "wait_s")
                ELSE IF err # NoError THEN Raise(r, err)
                ELSE Return([r EXCEPT !.content = content], Normalise(content))]
    /\ UNCHANGED attempt
    /\ Keep

\* asyncio.sleep(delay) returns: attempt += 1, loop, next request issued;
\* a sleep of nan never returns
SleepEnds(c) ==
    /\ call[c].pc \in {"wait_s", "wait_e"}
    /\ call[c].delay # NaN
    /\ attempt' = [attempt EXCEPT ![Frame(c)] = Increment(@)]
    /\ call' = [call EXCEPT ![c] =
            [@ EXCEPT !.pc = "net", !.sent = @ + 1, !.arrived = <<>>,
                      !.drained = "no",
                      !.retry_after = NoHint, !.delay = NoDelay]]
    /\ Keep

\* asyncio.sleep(nan): interpreters that check the delay raise ValueError,
\* the others leave the call suspended
SleepRejects(c, u) ==
    /\ call[c].pc \in {"wait_s", "wait_e"}
    /\ call[c].delay = NaN
    /\ u \in transport.draws
    /\ call' = [call EXCEPT ![c] =
            IF @.kind = "stream" /\ @.pc = "wait_s"
            THEN ThrowGuarded(@, attempt[Frame(c)], Fail("ValueError"), u)
            ELSE Raise(@, Fail("ValueError"))]
    /\ UNCHANGED attempt
    /\ Keep

\* _stream_request: opening the stream raises a transport failure
StreamOpenFails(c, e, u) ==
    /\ call[c].pc = "net" /\ call[c].kind = "stream"
    /\ e \in transport.errors /\ u \in transport.draws
    /\ LET r == [call[c] EXCEPT !.hist = Append(@, Fail(e))]
       IN  call' = [call EXCEPT ![c] = ThrowGuarded(r, attempt[Frame(c)], Fail(e), u)]
    /\ UNCHANGED attempt
    /\ Keep

\* _stream_request: the response headers arrive with status s
StreamOpens(c, s, h) ==
    /\ call[c].pc = "net" /\ call[c].kind = "stream"
    /\ s \in transport.statuses
    /\ h \in transport.hints
    /\ LET a  == attempt[Frame(c)]
           b  == _should_retry_response(s, a)
           r  == [call[c] EXCEPT !.hist = Append(@, Resp(s)),
                                 !.decision = Decision(Resp(s), a, b),
                                 !.retry_after = IF b THEN h ELSE NoHint]
           err == RaiseForStatus(s)
       IN  call' = [call EXCEPT ![c] =
                IF b THEN Drain(r, a)
                ELSE IF err # NoError THEN ThrowGuarded(r, a, err, 0)
                ELSE [r EXCEPT !.pc = "body"]]
    /\ UNCHANGED attempt
    /\ Keep

\* the outcome of 'await response.aread()' in the drain step: it returns
\* (e = NoExc) or raises e; 'except Exception: pass' then decides
AfterDrain(r, a, e, u) ==
    LET r1 == [r EXCEPT !.drained = IF e = NoExc THEN "ok" ELSE "failed"]
    IN  IF e = NoExc \/ CatchesDrain(e) THEN BackoffGuarded(r1, a, u)
        ELSE ThrowGuarded(r1, a, Fail(e), u)

\* _stream_request: the drain of a retryable response ends
DrainEnds(c, e, u) ==
    /\ call[c].pc = "drain"
    /\ e \in {NoExc} \cup transport.errors /\ u \in transport.draws
    /\ call' = [call EXCEPT ![c] = AfterDrain(call[c], attempt[Frame(c)], e, u)]
    /\ UNCHANGED attempt
    /\ Keep

\* 'if chunk:' without the test: every chunk goes to the callback
DeliverableAlways(t) == TRUE
\* 'if chunk:' - only a non-empty chunk is passed to the callback
Deliverable(t) == t # ""

\* _stream_request: aiter_text yields a chunk; non-empty ones go to callback
ChunkArrives(c, t) ==
    /\ call[c].pc = "body"
    /\ t \in transport.chunks
    /\ Len(call[c].arrived) < transport.maxChunks
    /\ call' = [call EXCEPT ![c] =
            [@ EXCEPT !.arrived = Append(@, t),
                      !.delivered = IF Deliverable(t) THEN Append(@, <<call[c].sent, t>>) ELSE @,
                      !.firstByte = IF Deliverable(t) /\ @ = -1 THEN attempt[Frame(c)] ELSE @]]
    /\ UNCHANGED attempt
    /\ Keep

\* _stream_request: aiter_text yields a non-empty chunk and callback(chunk)
\* raises e
ConsumerRaises(c, t, e, u) ==
    /\ call[c].pc = "body"
    /\ t \in transport.chunks /\ Deliverable(t)
    /\ e \in transport.consumerErrors /\ u \in transport.draws
    /\ Len(call[c].arrived) < transport.maxChunks
    /\ LET r == [call[c] EXCEPT
                    !.arrived = Append(@, t),
                    !.delivered = Append(@, <<call[c].sent, t>>),
                    !.firstByte = IF @ = -1 THEN attempt[Frame(c)] ELSE @,
                    !.consumer = e]
       IN  call' = [call EXCEPT ![c] = ThrowGuarded(r, attempt[Frame(c)], Fail(e), u)]
    /\ UNCHANGED attempt
    /\ Keep

\* _stream_request: the body ends, the call returns None
BodyEnds(c) ==
    /\ call[c].pc = "body"
    /\ call' = [call EXCEPT ![c] = Return(@, PyNone)]
    /\ UNCHANGED attempt
    /\ Keep

\* _stream_request: the connection fails while the body is read
BodyFails(c, e, u) ==
    /\ call[c].pc = "body"
    /\ e \in transport.errors /\ u \in transport.draws
    /\ call' = [call EXCEPT ![c] = ThrowGuarded(@, attempt[Frame(c)], Fail(e), u)]
    /\ UNCHANGED attempt
    /\ Keep

\* the state of a call when CancelledError is raised at its current await
Cancelled(r, a) ==
    LET r1 == [r EXCEPT !.cancelledAt = r.pc]
        e  == "CancelledError"
    IN  CASE r.pc = "drain" -> AfterDrain(r1, a, e, 0)
          [] r.pc = "net"   -> ThrowGuarded(r1, a, Fail(e), 0)
          [] r.pc = "body"  -> ThrowGuarded(r1, a, Fail(e), 0)
          [] r.pc = "wait_s" /\ r.kind = "stream" -> ThrowGuarded(r1, a, Fail(e), 0)
          [] OTHER -> Raise(r1, Fail(e))

\* the calling context is cancelled while the call is suspended
Cancel(c) ==
    /\ call[c].pc \in {"net", "drain", "wait_s", "wait_e", "body"}
    /\ call' = [call EXCEPT ![c] = Cancelled(call[c], attempt[Frame(c)])]
    /\ UNCHANGED attempt
    /\ Keep

Next ==
    \E c \in CallIds :
        \/ \E k \in {"request", "stream"} : Start(c, k)
        \/ \E e \in transport.errors, u \in transport.draws : RequestFails(c, e, u)
        \/ \E s \in transport.statuses, content \in transport.contents,
              h \in transport.hints, u \in transport.draws :
                RequestResponds(c, s, content, h, u)
        \/ SleepEnds(c)
        \/ \E u \in transport.draws : SleepRejects(c, u)
        \/ \E e \in transport.errors, u \in transport.draws : StreamOpenFails(c, e, u)
        \/ \E s \in transport.statuses, h \in transport.hints : StreamOpens(c, s, h)
        \/ \E e \in {NoExc} \cup transport.errors, u \in transport.draws :
                DrainEnds(c, e, u)
        \/ \E t \in transport.chunks : ChunkArrives(c, t)
        \/ \E t \in transport.chunks, e \in transport.consumerErrors,
              u \in transport.draws : ConsumerRaises(c, t, e, u)
        \/ BodyEnds(c)
        \/ \E e \in transport.errors, u \in transport.draws : BodyFails(c, e, u)
        \/ Cancel(c)

Spec == Init /\ [][Next]_vars

\* every request, drain, body read and wait of call c eventually completes
Completes(c) ==
    \/ \E e \in transport.errors, u \in transport.draws : RequestFails(c, e, u)
    \/ \E s \in transport.statuses, content \in transport.contents,
          h \in transport.hints, u \in transport.draws :
            RequestResponds(c, s, content, h, u)
    \/ SleepEnds(c)
    \/ \E u \in transport.draws : SleepRejects(c, u)
    \/ \E e \in transport.errors, u \in transport.draws : StreamOpenFails(c, e, u)
    \/ \E s \in transport.statuses, h \in transport.hints : StreamOpens(c, s, h)
    \/ \E e \in {NoExc} \cup transport.errors, u \in transport.draws :
            DrainEnds(c, e, u)
    \/ \E t \in transport.chunks : ChunkArrives(c, t)
    \/ \E t \in transport.chunks, e \in transport.consumerErrors,
          u \in transport.draws : ConsumerRaises(c, t, e, u)
    \/ BodyEnds(c)
    \/ \E e \in transport.errors, u \in transport.draws : BodyFails(c, e, u)

InitLive ==
    /\ InitCommon
    /\ max_retries \in 0..MaxBudget
    /\ callers = {1}
    /\ transport = LiveTransport
    /\ InitDefaults

Fairness == \A c \in CallIds : WF_vars(Completes(c))
SpecLive == InitLive /\ [][Next]_vars /\ Fairness

SpecConc == InitConc /\ [][Next]_vars

\* ------------------------------------------ the delay computer on its own
\* backoff bases and maximum delays a caller may configure
BackoffBases == {_DEFAULT_BACKOFF_BASE, 12}
MaxBackoffs == {_MAX_BACKOFF_SECONDS, 8, 20}

InitDelay ==
    /\ InitCommon
    /\ max_retries = 0
    /\ callers = {}
    /\ transport = FullTransport
    /\ backoff_base \in BackoffBases
    /\ max_backoff_seconds \in MaxBackoffs
    /\ dc \in [ phase : {"in"}, attempt : 0..MaxAttempt, hint : AllHints,
                 draw : Draws, out : {Delay(NoDelay)} ]
    /\ facade = DefaultFacade

\* one call of _compute_delay(attempt, response)
ComputeDelay ==
    /\ dc.phase = "in"
    /\ dc' = [dc EXCEPT !.phase = "out",
                        !.out = _compute_delay(dc.attempt, dc.hint, dc.draw)]
    /\ UNCHANGED <<max_retries, callers, transport, attempt, call,
                   backoff_base, max_backoff_seconds, facade, lg, sync, gen>>

NextDelay == ComputeDelay

SpecDelay == InitDelay /\ [][NextDelay]_vars

\* ----------------------------------------- one log record on its own
InitLog ==
    /\ attempt = [c \in CallIds |-> 0]
    /\ call = [c \in CallIds |-> IdleCall]
    /\ max_retries = 0
    /\ callers = {}
    /\ transport = FullTransport
    /\ InitDefaults
    /\ sync = NoWrapper
    /\ gen = NoGen
    /\ lg \in [ phase : {"in"}, key : Keys, site : LogSites,
                 rec : {DebugRecord("none", 0, NoExc)} ]

\* an executor whose settings hold lg.key emits the record of lg.site
EmitLog ==
    /\ lg.phase = "in"
    /\ lg' = [lg EXCEPT !.phase = "out", !.rec = RecordAt(lg.site, lg.key)]
    /\ UNCHANGED <<max_retries, callers, transport, attempt, call,
                   backoff_base, max_backoff_seconds, dc, facade, sync, gen>>

NextLog == EmitLog

SpecLog == InitLog /\ [][NextLog]_vars

\* ------------------------------- the shared redaction helper on its own
\* a caller of utils.redact_api_key holds the credential lg.key
InitRedact ==
    /\ attempt = [c \in CallIds |-> 0]
    /\ call = [c \in CallIds |-> IdleCall]
    /\ max_retries = 0
    /\ callers = {}
    /\ transport = FullTransport
    /\ InitDefaults
    /\ sync = NoWrapper
    /\ gen = NoGen
    /\ lg \in [ phase : {"in"}, key : Keys, site : {"redact_api_key"},
                 rec : {DebugRecord("none", 0, NoExc)} ]

\* the caller logs the text that the helper returns
Redact ==
    /\ lg.phase = "in"
    /\ lg' = [lg EXCEPT !.phase = "out",
                         !.rec.msg = "redact_api_key",
                         !.rec.api_key = utils_redact_api_key(lg.key)]
    /\ UNCHANGED <<max_retries, callers, transport, attempt, call,
                   backoff_base, max_backoff_seconds, dc, facade, sync, gen>>

NextRedact == Redact

SpecRedact == InitRedact /\ [][NextRedact]_vars

\* --------------------------------------------------- one run of generate
InitGen ==
    /\ attempt = [c \in CallIds |-> 0]
    /\ call = [c \in CallIds |-> IdleCall]
    /\ max_retries = 0
    /\ callers = {}
    /\ transport = FullTransport
    /\ InitDefaults
    /\ lg = NoLog
    /\ sync = NoWrapper
    /\ gen \in [ pc : {"in"}, prompt : Prompts, client : {"none", "cached"},
                  attempt : {0}, hist : {<<>>}, slept : {<<>>}, pending : {0},
                  result : {NoResult} ]

KeepGen == UNCHANGED <<max_retries, callers, transport, attempt, call,
                       backoff_base, max_backoff_seconds, dc, facade, lg, sync>>

\* generate(prompt) up to the first pass of the loop
Generate ==
    /\ gen.pc = "in"
    /\ gen' = IF NoPrompt(gen.prompt)
              THEN [gen EXCEPT !.pc = "done", !.result = Returned(Str(<<>>))]
              ELSE [gen EXCEPT !.pc = "try", !.attempt = 1]
    /\ KeepGen

\* the except clause of the loop, for the exception e and the draw rnd
Handler(g, e, rnd) ==
    IF ~CatchesGenerate(e) THEN [g EXCEPT !.pc = "done", !.result = Raised(e)]
    ELSE IF is_429(e) \/ is_server_err(e)
    THEN [g EXCEPT !.pc = "sleep", !.pending = wait(g.attempt, rnd)]
    ELSE [g EXCEPT !.pc = "done", !.result = Returned(ErrorText(e))]

\* get_client() raises: no client could be built
GetClientRaises ==
    /\ gen.pc = "try" /\ gen.client = "none"
    /\ \E rnd \in Randoms : gen' = Handler(gen, ClientError, rnd)
    /\ KeepGen

\* complete returns r
CompleteReturns ==
    /\ gen.pc = "try"
    /\ \E r \in Responses :
         gen' = [gen EXCEPT !.pc = "done", !.client = "cached",
                            !.hist = Append(@, Outcome(NoErr, r)),
                            !.result = Returned(extract_text(r))]
    /\ KeepGen

\* complete raises e
CompleteRaises ==
    /\ gen.pc = "try"
    /\ \E e \in Errors, rnd \in Randoms :
         gen' = Handler([gen EXCEPT !.client = "cached",
                                    !.hist = Append(@, Outcome(e, NoResp))], e, rnd)
    /\ KeepGen

\* asyncio.sleep(wait) ends: 'continue', or the end of the loop
GenSleepEnds ==
    /\ gen.pc = "sleep"
    /\ gen' = IF gen.attempt < max_attempts
              THEN [gen EXCEPT !.pc = "try", !.attempt = @ + 1,
                               !.slept = Append(@, gen.pending), !.pending = 0]
              ELSE [gen EXCEPT !.pc = "done",
                               !.slept = Append(@, gen.pending), !.pending = 0,
                               !.result = Returned(Unavailable)]
    /\ KeepGen

NextGen ==
    \/ Generate
    \/ GetClientRaises
    \/ CompleteReturns
    \/ CompleteRaises
    \/ GenSleepEnds

SpecGen == InitGen /\ [][NextGen]_vars

\* ---------------------------------------------- the life of one client
\* the caller's program: construction, one call, shutdown
InitLife ==
    /\ InitCommon
    /\ max_retries = 0
    /\ callers = {1}
    /\ transport = ConcTransport
    /\ backoff_base = _DEFAULT_BACKOFF_BASE
    /\ max_backoff_seconds = _MAX_BACKOFF_SECONDS
    /\ dc = NoDelayCall
    /\ facade \in {NewFacade(NoSettings), NewFacade(CallerSettings)}

KeepCalls == UNCHANGED <<callers, transport, attempt, call,
                         backoff_base, max_backoff_seconds, dc, lg, sync, gen>>

\* GeminiAsyncClient(...); when it is built by GeminiClient.__init__ the
\* wrapper is open afterwards, with _closed = False
Construct(paths, over, injected, mro, bb, mbs) ==
    /\ facade.state = "new"
    /\ facade' = [__init__(facade, paths, over, injected) EXCEPT
                    !.args = [max_retries_override |-> mro, backoff_base |-> bb,
                              max_backoff_seconds |-> mbs]]
    /\ max_retries' = EffectiveMaxRetries(mro, facade'.settings.max_retries)
    /\ backoff_base' = EffectiveBackoff(bb, _DEFAULT_BACKOFF_BASE)
    /\ max_backoff_seconds' = EffectiveBackoff(mbs, _MAX_BACKOFF_SECONDS)
    /\ UNCHANGED <<callers, transport, attempt, call, dc, lg, gen>>
    /\ sync' = IF sync.state = "building" THEN [sync EXCEPT !.state = "open"]
               ELSE sync

\* await client.aclose()
Aclose ==
    /\ facade.state = "built"
    /\ facade.closes < MaxCloses
    /\ facade' = [aclose(facade) EXCEPT !.closes = @ + 1]
    /\ UNCHANGED max_retries
    /\ KeepCalls

\* leaving 'async with client:'
AExit ==
    /\ facade.state = "built"
    /\ facade.exits = 0
    /\ facade' = [aclose(facade) EXCEPT !.exits = 1]
    /\ UNCHANGED max_retries
    /\ KeepCalls

NextLife ==
    \/ \E paths \in {None, "paths"}, over \in SUBSET OverrideFields,
          injected \in BOOLEAN :
            Construct(paths, over, injected, NoArg, NoArg, NoArg)
    \/ Aclose
    \/ AExit
    \/ Next

SpecLife == InitLife /\ [][NextLife]_vars

\* ------------------------------------- construction with retry arguments
\* values given for max_retries_override: -1, 0, 2, 1.5, "3", True
RetryArgs ==
    {NoArg, PyV("int", -1), PyV("int", 0), PyV("int", 2), PyV("float", 1),
     PyV("str", 3), PyV("bool", 1)}
\* values given for backoff_base and max_backoff_seconds: 0, -1.0, 0.5, 2,
\* nan, inf, "x"
BackoffArgs ==
    {NoArg, PyV("int", 0), PyV("float", -4), PyV("float", 2), PyV("int", 8),
     PyV("float", NaN), PyV("float", Inf), PyV("str", 0)}
\* values of max_retries in the caller's Settings
SettingsRetries == {-1, 0, 2}

InitCtor ==
    /\ InitCommon
    /\ max_retries = 0
    /\ callers = {}
    /\ transport = FullTransport
    /\ backoff_base = _DEFAULT_BACKOFF_BASE
    /\ max_backoff_seconds = _MAX_BACKOFF_SECONDS
    /\ dc = NoDelayCall
    /\ facade \in {NewFacade(NoSettings)} \cup
            {NewFacade([CallerSettings EXCEPT !.max_retries = n]) :
                n \in SettingsRetries}

NextCtor ==
    \E over \in {{}, {"max_retries"}}, mro \in RetryArgs,
       bb \in BackoffArgs, mbs \in BackoffArgs :
        Construct(None, over, FALSE, mro, bb, mbs)

SpecCtor == InitCtor /\ [][NextCtor]_vars

\* ------------------------------------------------- the blocking wrapper
\* how anyio.run(self._async_client.aclose) ends: it returns, it raises
\* RuntimeError before the shutdown has run, or the shutdown raises
CloseOutcomes == {"returns", "RuntimeError", "raises"}

\* 'if self._closed: return' without the test
AlreadyClosedNever(w) == FALSE
\* 'if self._closed: return'
AlreadyClosed(w) == w.closed

\* GeminiClient.close: the wrapper after the call
close(w, outcome) ==
    IF AlreadyClosed(w) THEN [w EXCEPT !.error = NoExc]
    ELSE CASE outcome = "returns" ->
                [w EXCEPT !.started = @ + 1, !.ran = @ + 1, !.closed = TRUE,
                          !.error = NoExc]
           [] outcome = "RuntimeError" ->
                [w EXCEPT !.started = @ + 1, !.closed = TRUE, !.error = NoExc]
           [] OTHER ->
                [w EXCEPT !.started = @ + 1, !.error = "Exception"]
\* the async client after the call
CloseAsync(w, f, outcome) ==
    IF ~AlreadyClosed(w) /\ outcome = "returns" THEN aclose(f) ELSE f

\* a program that builds a GeminiClient and shuts it down
InitSync ==
    /\ attempt = [c \in CallIds |-> 0]
    /\ call = [c \in CallIds |-> IdleCall]
    /\ lg = NoLog
    /\ max_retries = 0
    /\ callers = {}
    /\ transport = ConcTransport
    /\ backoff_base = _DEFAULT_BACKOFF_BASE
    /\ max_backoff_seconds = _MAX_BACKOFF_SECONDS
    /\ dc = NoDelayCall
    /\ facade \in {NewFacade(NoSettings), NewFacade(CallerSettings)}
    /\ sync = [NoWrapper EXCEPT !.state = "building"]
    /\ gen = NoGen

KeepSync == UNCHANGED <<max_retries, callers, transport, attempt, call,
                        backoff_base, max_backoff_seconds, dc, lg, gen>>

\* client.close()
SyncClose(outcome) ==
    /\ sync.state = "open"
    /\ sync.closes < MaxCloses
    /\ sync' = [close(sync, outcome) EXCEPT !.closes = @ + 1]
    /\ facade' = CloseAsync(sync, facade, outcome)
    /\ KeepSync

\* leaving 'with client:'
SyncExit(outcome) ==
    /\ sync.state = "open"
    /\ sync.exits = 0
    /\ sync' = [close(sync, outcome) EXCEPT !.exits = 1]
    /\ facade' = CloseAsync(sync, facade, outcome)
    /\ KeepSync

NextSync ==
    \/ \E paths \in {None, "paths"}, over \in SUBSET OverrideFields :
            Construct(paths, over, FALSE, NoArg, NoArg, NoArg)
    \/ \E outcome \in CloseOutcomes : SyncClose(outcome)
    \/ \E outcome \in CloseOutcomes : SyncExit(outcome)

SpecSync == InitSync /\ [][NextSync]_vars

\* ================================================================ claims
Retryable == {429, 502, 503, 504}
Is2xx(s) == s \in 200..299
Started(c) == call[c].pc # "idle"
AllOf(h, ok(_)) == h # <<>> /\ \A i \in DOMAIN h : ok(h[i])

\* C1: in every reachable state of a non-streaming and of a streaming call
\* the attempt counter lies in 0..max_retries.
C1_AttemptWithinBudget ==
    \A c \in CallIds :
        call[c].kind \in {"request", "stream"} =>
            attempt[Frame(c)] >= 0 /\ attempt[Frame(c)] <= max_retries

\* a streaming call that used up a positive budget and then failed
C1_Witness ==
    \E c \in CallIds :
        /\ call[c].kind = "stream" /\ call[c].pc = "done"
        /\ max_retries >= 1 /\ attempt[Frame(c)] = max_retries
        /\ call[c].raised # NoError

\* C2: in a streaming call, once a chunk has been delivered the attempt
\* counter stays at the value it had at the first delivery and no further
\* request is issued.
C2_FrozenAfterFirstChunk ==
    \A c \in CallIds :
        (call[c].kind = "stream" /\ call[c].firstByte # -1) =>
            /\ attempt[Frame(c)] = call[c].firstByte
            /\ call[c].sent = call[c].firstByte + 1

\* C3: a non-streaming call whose every request was answered with the same
\* retryable status s ends only after max_retries + 1 requests, with the
\* response-level error for s.
C3_RetryableExhaustion ==
    \A c \in CallIds : \A s \in Retryable :
        LET r == call[c]
            isS(ev) == ev = Resp(s)
        IN  (r.kind = "request" /\ r.pc = "done" /\ r.cancelledAt = "no"
                /\ AllOf(r.hist, isS)) =>
                /\ r.sent = max_retries + 1
                /\ Len(r.hist) = max_retries + 1
                /\ r.raised = HTTPStatusError(s)

\* budget 2, always 429: three requests, then the 429 error
C3_Witness ==
    \E c \in CallIds :
        /\ max_retries = 2 /\ call[c].kind = "request" /\ call[c].pc = "done"
        /\ call[c].hist = <<Resp(429), Resp(429), Resp(429)>>
        /\ call[c].sent = 3 /\ call[c].raised = HTTPStatusError(429)

\* C4: a response whose status is neither 2xx nor retryable ends the call
\* at once with the response-level error for that status: no wait, no
\* further request.
C4_TerminalNeverRetried ==
    \A c \in CallIds :
        LET r == call[c] IN
        (r.hist # <<>> /\ Last(r.hist).exc = NoExc
            /\ ~Is2xx(Last(r.hist).status)
            /\ Last(r.hist).status \notin Retryable) =>
            /\ r.pc = "done"
            /\ r.raised = HTTPStatusError(Last(r.hist).status)
            /\ r.returned = NoValue
            /\ r.sent = Len(r.hist)
            /\ r.waits = Len(r.hist) - 1

\* a 404 that arrives after one retry, with budget left
C4_Witness ==
    \E c \in CallIds :
        /\ call[c].kind = "request" /\ call[c].pc = "done"
        /\ call[c].hist = <<Resp(503), Resp(404)>>
        /\ attempt[Frame(c)] = 1 /\ max_retries = 2

\* C5: a non-streaming call whose every request failed at transport level,
\* whatever the sub-causes, ends only after max_retries + 1 requests and
\* propagates the failure of the last request.
C5_TransportExhaustion ==
    \A c \in CallIds :
        LET r == call[c]
            isFail(ev) == ev.exc \in TransportErrors
        IN  (r.kind = "request" /\ r.pc = "done" /\ r.cancelledAt = "no"
                /\ AllOf(r.hist, isFail)) =>
                /\ r.sent = max_retries + 1
                /\ Len(r.hist) = max_retries + 1
                /\ r.raised = Last(r.hist)

\* budget 2 and three failures of mixed sub-causes
C5_Witness ==
    \E c \in CallIds :
        /\ max_retries = 2 /\ call[c].kind = "request" /\ call[c].pc = "done"
        /\ call[c].hist = <<Fail("ConnectError"), Fail("ReadTimeout"), Fail("ConnectError")>>
        /\ call[c].raised = Fail("ConnectError")

\* C6: every answer of the retry classifier is: for a response, true
\* exactly when the status is in {429, 502, 503, 504} and
\* attempt < max_retries; for a transport failure, true exactly when
\* attempt < max_retries.
C6_ClassifierAnswer ==
    \A c \in CallIds :
        LET d == call[c].decision IN
        d.made =>
            /\ d.retry <=> (IF d.ev.exc = NoExc
                            THEN d.ev.status \in Retryable /\ d.attempt < max_retries
                            ELSE d.attempt < max_retries)
            /\ (d.attempt = max_retries => ~d.retry)

\* the classifier refuses a 503 at the budget boundary of a positive budget
C6_Witness ==
    \E c \in CallIds :
        LET d == call[c].decision IN
        /\ d.made /\ d.ev = Resp(503)
        /\ max_retries >= 1 /\ d.attempt = max_retries /\ ~d.retry

\* C7: the error surfaced by a non-streaming call that failed after its
\* budget was used up (max_retries + 1 requests issued) is the outcome of
\* the last request issued: the transport error itself, or the
\* response-level error with the status of the last response.
C7_LastOutcomeSurfaced ==
    \A c \in CallIds :
        LET r == call[c] IN
        (r.kind = "request" /\ r.pc = "done" /\ r.raised # NoError
            /\ r.sent = max_retries + 1
            /\ r.cancelledAt = "no") =>
            /\ r.hist # <<>>
            /\ Len(r.hist) = r.sent
            /\ (Last(r.hist).exc # NoExc => r.raised = Last(r.hist))
            /\ (Last(r.hist).exc = NoExc =>
                    r.raised = HTTPStatusError(Last(r.hist).status))

\* 'transport error, 429, 503' with budget 2 surfaces the 503
C7_Witness ==
    \E c \in CallIds :
        /\ max_retries = 2 /\ call[c].kind = "request" /\ call[c].pc = "done"
        /\ call[c].hist = <<Fail("ConnectError"), Resp(429), Resp(503)>>
        /\ call[c].raised = HTTPStatusError(503)

\* C8: a finished non-streaming call either returned a value, and then the
\* last response was 2xx, or raised an error and returned nothing.
C8_ResultOrError ==
    \A c \in CallIds :
        LET r == call[c] IN
        (r.kind = "request" /\ r.pc = "done") =>
            /\ (r.returned # NoValue) <=> (r.raised = NoError)
            /\ (r.returned # NoValue) =>
                    /\ r.hist # <<>>
                    /\ Last(r.hist).exc = NoExc
                    /\ Is2xx(Last(r.hist).status)
            /\ (r.hist # <<>> /\ (Last(r.hist).exc # NoExc \/ ~Is2xx(Last(r.hist).status)))
                    => (r.returned = NoValue /\ r.raised # NoError)

\* an exhausted 500-class retryable status: an error and no value
C8_Witness ==
    \E c \in CallIds :
        /\ call[c].kind = "request" /\ call[c].pc = "done"
        /\ max_retries >= 1 /\ call[c].sent = max_retries + 1
        /\ Last(call[c].hist) = Resp(503)
        /\ call[c].returned = NoValue /\ call[c].raised = HTTPStatusError(503)

\* C9: a step in which a call is (or already was) cancelled leaves it
\* ended with the cancellation outcome, issues no request and starts no wait.
C9_CancellationStops ==
    [][\A c \in CallIds :
        call'[c].cancelledAt # "no" =>
            /\ call'[c].pc = "done"
            /\ call'[c].raised = Fail("CancelledError")
            /\ call'[c].returned = NoValue
            /\ call'[c].sent = call[c].sent
            /\ call'[c].waits = call[c].waits
            /\ attempt'[Frame(c)] = attempt[Frame(c)]]_vars

\* a streaming call cancelled in its drain step while budget remained
C9_Witness ==
    \E c \in CallIds :
        /\ call[c].kind = "stream" /\ call[c].cancelledAt = "drain"
        /\ attempt[Frame(c)] < max_retries
        /\ call[c].pc = "done" /\ call[c].raised = Fail("CancelledError")

\* C10: with calls interleaved, each call's attempt counter counts its own
\* retries (requests issued = attempt + 1 <= max_retries + 1), and a step
\* of one call changes neither the counter nor the state of another.
C10_CallLocal ==
    /\ [](\A c \in CallIds :
            Started(c) =>
                /\ call[c].sent = attempt[Frame(c)] + 1
                /\ call[c].sent <= max_retries + 1)
    /\ [][\A c, d \in CallIds :
            (c # d /\ call'[c] # call[c]) =>
                /\ call'[d] = call[d]
                /\ attempt'[Frame(d)] = attempt[Frame(d)]]_vars

\* two calls in flight, one on its retry, the other waiting for its first
C10_Witness ==
    /\ call[1].pc = "net" /\ call[1].sent = 2 /\ attempt[Frame(1)] = 1
    /\ call[2].pc = "wait_e" /\ call[2].sent = 1 /\ attempt[Frame(2)] = 0

\* the non-empty chunks of a body, in arrival order, tagged with request n
NonEmptyChunks(arr, n) ==
    LET f == SelectSeq(arr, LAMBDA t : t # "")
    IN  [i \in 1..Len(f) |-> <<n, f[i]>>]
OfRequest(del, n) == SelectSeq(del, LAMBDA x : x[1] = n)

CappedExp(a) ==
    IF backoff_base * (2 ^ a) <= max_backoff_seconds
    THEN backoff_base * (2 ^ a) ELSE max_backoff_seconds
\* a header that is a number of seconds h >= 0 (float('inf') included)
NumericHint(h) == (h.form = "seconds" /\ h.val >= 0) \/ h.form = "inf"
\* a header that neither parser accepts
Unparseable(h) == h.form \in {"garbage", "baddate"}

\* C12: for a Retry-After header that is a number of seconds h >= 0 the
\* delay is exactly min(h, max_backoff_seconds), whatever the attempt
\* counter, the base delay and the jitter draw.
C12_NumericHintExact ==
    (dc.phase = "out" /\ NumericHint(dc.hint)) =>
        /\ dc.out.exc = NoExc
        /\ dc.out.val = (IF dc.hint.form = "seconds" /\ dc.hint.val <= max_backoff_seconds
                         THEN dc.hint.val ELSE max_backoff_seconds)

\* 'Retry-After: 2' at attempt 3 with the largest jitter draw: 2 seconds
C12_Witness ==
    /\ dc.phase = "out" /\ dc.hint = Hint("seconds", 8)
    /\ dc.attempt = 3 /\ dc.draw = 2 /\ max_backoff_seconds = 20
    /\ dc.out = Delay(8)

\* C13: a Retry-After value that neither parser accepts never raises to
\* the caller: the call goes on to its retry wait with the exponential
\* delay with jitter.
C13_UnparseableIgnored ==
    \A c \in CallIds :
        LET r == call[c] IN
        Unparseable(r.retry_after) =>
            /\ r.raised.exc \in {NoExc, "CancelledError"}
            /\ r.pc \in {"wait_s", "wait_e"} =>
                    /\ r.delay >= CappedExp(attempt[Frame(c)])
                    /\ 4 * r.delay <= 5 * CappedExp(attempt[Frame(c)])

\* C14: with no parseable hint the delay d returned lies between
\* c = min(base_delay * 2^attempt, max_delay) and 1.25 * c.
C14_ExponentialRange ==
    (dc.phase = "out" /\ dc.out.exc = NoExc
        /\ (~Truthy(dc.hint) \/ Unparseable(dc.hint))) =>
        /\ dc.out.val >= CappedExp(dc.attempt)
        /\ 4 * dc.out.val <= 5 * CappedExp(dc.attempt)

\* attempt 3, base 1 s, maximum 5 s: c is the cap and d its upper end
C14_Witness ==
    /\ dc.phase = "out" /\ dc.hint = NoHint /\ dc.attempt = 3
    /\ backoff_base = 4 /\ max_backoff_seconds = 20 /\ dc.draw = 2
    /\ dc.out = Delay(25)

\* C15: the delay returned is never negative; a date in the past and a
\* number below zero give 0 and every delay derived from a hint lies in
\* 0..max_backoff_seconds.
C15_DelayNonNegative ==
    (dc.phase = "out" /\ dc.out.exc = NoExc) =>
        /\ dc.out.val >= 0
        /\ (dc.hint.form \in {"seconds", "date"} /\ dc.hint.val < 0) => dc.out.val = 0
        /\ (dc.hint.form \in {"seconds", "date", "nan", "inf"}) =>
                dc.out.val <= max_backoff_seconds

\* C16: a 2xx response with an empty body makes the non-streaming call
\* return the empty mapping and raise nothing, after any number of
\* retries.
C16_EmptyBodyEmptyMap ==
    \A c \in CallIds :
        LET r == call[c] IN
        (r.kind = "request" /\ r.content = "") =>
            /\ r.pc = "done" /\ Last(r.hist).exc = NoExc /\ Is2xx(Last(r.hist).status)
            /\ r.returned = EmptyMap /\ r.raised = NoError

\* an empty 200 after a 503 was retried
C16_Witness ==
    \E c \in CallIds :
        /\ call[c].hist = <<Resp(503), Resp(200)>> /\ call[c].content = ""
        /\ call[c].returned = EmptyMap /\ call[c].sent = 2

\* C17: a 2xx response with a non-empty body that is not JSON makes the
\* non-streaming call return the wrapper {"raw": text} with exactly the
\* text of the response; no error is raised and no retry is decided.
C17_RawTextFallback ==
    \A c \in CallIds :
        LET r == call[c] IN
        (r.kind = "request" /\ r.content \notin {Unread, "", "{}"}) =>
            /\ r.pc = "done" /\ Last(r.hist).exc = NoExc /\ Is2xx(Last(r.hist).status)
            /\ r.returned = Raw(r.content) /\ r.raised = NoError
            /\ r.decision.made /\ ~r.decision.retry
            /\ r.sent = Len(r.hist)

\* the first response is a 200 with an HTML page
C17_Witness ==
    \E c \in CallIds :
        /\ call[c].hist = <<Resp(200)>> /\ call[c].content = "<html>"
        /\ call[c].returned = Raw("<html>") /\ call[c].sent = 1

\* shutdown was requested at least once
Shutdown == facade.closes + facade.exits >= 1

C19_ReleaseByOwner ==
    (facade.state = "built" /\ Shutdown) =>
        /\ (facade.released >= 1) <=> ~facade.injected
        /\ facade.injected => facade.client = "open"

\* an injected transport is still open after a call, aclose and the exit
C19_Witness ==
    /\ facade.injected /\ facade.closes = 1 /\ facade.exits = 1
    /\ facade.released = 0 /\ facade.client = "open"
    /\ \E c \in CallIds : call[c].pc = "done" /\ call[c].sent >= 1

\* C20: every field of the Settings object the caller passed to __init__
\* keeps the value it had when it was passed.
C20_CallerSettingsUnchanged ==
    facade.given # NoSettings => facade.caller = facade.given

\* C21: a streaming response that opens with a retryable status while
\* budget remains is drained first: the call enters the drain step with no
\* wait started, a retry wait for a status is entered only from the drain
\* step, with the drain attempted (completed or failed), and the next
\* request is issued only after that.
C21_DrainBeforeRetry ==
    [][\A c \in CallIds :
        LET r == call[c]
            r2 == call'[c]
        IN  r.kind = "stream" =>
            /\ (r.pc = "net" /\ Len(r2.hist) > Len(r.hist)
                    /\ Last(r2.hist).exc = NoExc
                    /\ Last(r2.hist).status \in Retryable
                    /\ attempt[Frame(c)] < max_retries)
                => (r2.pc = "drain" /\ r2.waits = r.waits /\ r2.sent = r.sent)
            /\ (r2.pc = "wait_s" /\ r.pc # "wait_s")
                => (r.pc = "drain" /\ r2.drained \in {"ok", "failed"}
                        /\ r2.sent = r.sent)
            /\ (r.pc = "wait_s" /\ r2.sent > r.sent)
                => r.drained \in {"ok", "failed"}
      ]_vars

\* the drain of a 503 failed and the call waits for its retry all the same
C21_Witness ==
    \E c \in CallIds :
        /\ call[c].kind = "stream" /\ call[c].pc = "wait_s"
        /\ call[c].drained = "failed" /\ Last(call[c].hist) = Resp(503)

\* C24: the attempt counter starts at 0 and moves by one per retry: at every
\* moment of a call the requests issued so far are attempt + 1, every
\* request after the first follows a wait, and each wait was announced by
\* exactly one retry log record.
C24_FixedRetrySequence ==
    \A c \in CallIds :
        LET r == call[c]
            a == attempt[Frame(c)]
        IN  Started(c) =>
            /\ r.sent = a + 1
            /\ r.logs = r.waits
            /\ r.waits \in {a, a + 1}
            /\ r.pc \in {"wait_s", "wait_e"} => r.waits = a + 1
            /\ r.pc \in {"net", "drain", "body"} => r.waits = a

\* the third request of a streaming call is out after two waits
C24_Witness ==
    \E c \in CallIds :
        /\ call[c].kind = "stream" /\ call[c].pc = "net"
        /\ call[c].sent = 3 /\ attempt[Frame(c)] = 2
        /\ call[c].waits = 2 /\ call[c].logs = 2

\* C25: all chunks passed to the consumer during one streaming call come
\* from one response, and they are a prefix of its non-empty chunks.
C25_SingleBody ==
    \A c \in CallIds :
        LET r == call[c] IN
        r.kind = "stream" =>
            /\ \A i, j \in DOMAIN r.delivered :
                    r.delivered[i][1] = r.delivered[j][1]
            /\ Len(r.delivered) <= transport.maxChunks

\* C26: a streaming call whose every open failed (retryable status or
\* transport failure) ends only after max_retries + 1 requests, raising the
\* last of these errors; a terminal status at the first open is raised
\* after that single request.
C26_StreamOpenExhaustion ==
    \A c \in CallIds :
        LET r == call[c]
            failed(ev) == ev.exc # NoExc \/ ev.status \in Retryable
            term(ev) == ev.exc = NoExc /\ ~Is2xx(ev.status)
                            /\ ev.status \notin Retryable
        IN  (r.kind = "stream" /\ r.pc = "done" /\ r.cancelledAt = "no") =>
            /\ AllOf(r.hist, failed) =>
                    /\ r.sent = max_retries + 1
                    /\ Len(r.hist) = max_retries + 1
                    /\ r.raised = (IF Last(r.hist).exc # NoExc THEN Last(r.hist)
                                   ELSE HTTPStatusError(Last(r.hist).status))
            /\ (Len(r.hist) = 1 /\ term(r.hist[1])) =>
                    /\ r.sent = 1 /\ r.waits = 0
                    /\ r.raised = HTTPStatusError(r.hist[1].status)

\* C27: every chunk passed to the consumer belongs to a response whose
\* status is 2xx.
C27_OnlySuccessBodies ==
    \A c \in CallIds :
        LET r == call[c] IN
        \A i \in DOMAIN r.delivered :
            LET n == r.delivered[i][1] IN
            /\ n \in DOMAIN r.hist
            /\ r.hist[n].exc = NoExc /\ Is2xx(r.hist[n].status)

\* the 503 of the first open was retried; only the 200 body was delivered
C27_Witness ==
    \E c \in CallIds :
        /\ call[c].kind = "stream"
        /\ call[c].hist = <<Resp(503), Resp(200)>>
        /\ call[c].delivered = <<<<2, "a">>>>

\* C28: the step in which the consumer raises an exception that is not a
\* transport failure ends the call with that exception: no wait is started,
\* no request is issued and the attempt counter keeps its value.
C28_ConsumerErrorPropagates ==
    [][\A c \in CallIds :
        LET r == call[c]
            r2 == call'[c]
        IN  (r.consumer = "ok" /\ r2.consumer # "ok"
                /\ ~IsSubclass(r2.consumer, "RequestError")) =>
            /\ r2.pc = "done" /\ r2.raised = Fail(r2.consumer)
            /\ r2.sent = r.sent /\ r2.waits = r.waits /\ r2.logs = r.logs
            /\ attempt'[Frame(c)] = attempt[Frame(c)]
      ]_vars

\* the callback took the first chunk and raised on the second, with a
\* retry still allowed
C28_Witness ==
    \E c \in CallIds :
        /\ call[c].consumer = "ConsumerError" /\ call[c].pc = "done"
        /\ call[c].delivered = <<<<1, "a">>, <<1, "a">>>>
        /\ call[c].sent = 1 /\ max_retries >= 1
        /\ call[c].raised = Fail("ConsumerError")

\* C23: if every request and every wait completes, a call that was started
\* ends, having issued at most max_retries + 1 requests.
C23_CallsEnd ==
    \A c \in CallIds :
        Started(c) ~> (call[c].pc = "done" /\ call[c].sent <= max_retries + 1)

\* a streaming call ended after using its whole budget of retries
C23_Witness ==
    \E c \in CallIds :
        /\ call[c].kind = "stream" /\ call[c].pc = "done"
        /\ max_retries = MaxBudget /\ call[c].sent = max_retries + 1

\* C22: no log record holds the raw credential: the api_key field of the
\* retry record is "****" for a key of at most 8 characters, otherwise its
\* first 4 and last 4 characters, and differs from the key; the other
\* records have no credential field.
C22_NoRawCredential ==
    (lg.phase = "out" /\ lg.key # <<>>) =>
        /\ lg.rec.api_key # lg.key
        /\ lg.rec.msg = "retrying request" =>
                lg.rec.api_key =
                    (IF Len(lg.key) <= 8 THEN Stars
                     ELSE SubSeq(lg.key, 1, 4) \o Dots
                            \o SubSeq(lg.key, Len(lg.key) - 3, Len(lg.key)))
        /\ lg.rec.msg # "retrying request" => lg.rec.api_key = Absent

\* C29: after construction the retry budget is an integer >= 0, equal to
\* max_retries_override when that is given as an integer >= 0, to the
\* settings value otherwise, and 0 for a negative or non-integer value; the
\* backoff base and the maximum backoff are > 0, a non-positive or
\* non-numeric argument being replaced by the default.
C29_RetryParametersWellFormed ==
    facade.state = "built" =>
        LET a == facade.args
            n == facade.settings.max_retries
        IN  /\ max_retries \in Nat
            /\ (a.max_retries_override # NoArg /\ IsInt(a.max_retries_override)
                    /\ a.max_retries_override.v >= 0)
                => max_retries = a.max_retries_override.v
            /\ (a.max_retries_override # NoArg
                    /\ (~IsInt(a.max_retries_override) \/ a.max_retries_override.v < 0))
                => max_retries = 0
            /\ a.max_retries_override = NoArg
                => max_retries = (IF n < 0 THEN 0 ELSE n)
            /\ backoff_base # NaN /\ backoff_base > 0
            /\ max_backoff_seconds # NaN /\ max_backoff_seconds > 0
            /\ (a.backoff_base.t = "str" \/ (IsNumber(a.backoff_base)
                    /\ a.backoff_base.v # NaN /\ a.backoff_base.v <= 0))
                => backoff_base = _DEFAULT_BACKOFF_BASE
            /\ (a.max_backoff_seconds.t = "str" \/ (IsNumber(a.max_backoff_seconds)
                    /\ a.max_backoff_seconds.v # NaN /\ a.max_backoff_seconds.v <= 0))
                => max_backoff_seconds = _MAX_BACKOFF_SECONDS

\* C30: once a close of the blocking wrapper has completed, every later
\* close, direct or through __exit__, neither starts the async shutdown nor
\* raises, and the async client is left as it is; the async shutdown runs
\* to completion at most once over all close calls.
C30_SyncCloseOnce ==
    [][(sync.state = "open" /\ sync' # sync) =>
        /\ sync'.ran <= 1
        /\ sync.closed =>
                /\ sync'.closed
                /\ sync'.started = sync.started /\ sync'.ran = sync.ran
                /\ sync'.error = NoExc
                /\ facade' = facade
      ]_vars

\* close twice and leave the context manager: one async shutdown
C30_Witness ==
    /\ sync.state = "open" /\ sync.closed
    /\ sync.closes = 2 /\ sync.exits = 1
    /\ sync.started = 1 /\ sync.ran = 1 /\ facade.released = 1

\* the key with the character at position i replaced by ch
WithChar(key, i, ch) == [key EXCEPT ![i] = ch]
\* position i of the key has no part in the text: another character there
\* gives the same text
HiddenAt(key, i, text) ==
    \E ch \in KeyChars \ {key[i]} : utils_redact_api_key(WithChar(key, i, ch)) = text

\* C31: the text that redact_api_key of utils returns for a non-empty key
\* leaves out at least one character position of the key: the 4-character
\* prefix and the 4-character suffix never cover the whole key.
C31_SomePositionHidden ==
    (lg.phase = "out" /\ lg.rec.msg = "redact_api_key" /\ lg.key # <<>>) =>
        /\ \E i \in 1..Len(lg.key) : HiddenAt(lg.key, i, lg.rec.api_key)
        /\ lg.rec.api_key # Stars => Len(lg.key) > 8
\* a failure with one of the statuses 429, 502, 503, 504
TransientFailure(o) == o.exc # NoErr /\ o.exc.status \in {429, 502, 503, 504}
Blank(prompt) == \A i \in 1..Len(prompt) : prompt[i] = " "

\* C32: generate calls complete at most 3 times for a prompt, calls it again
\* only after a failure with status 429, 502, 503 or 504, waits between two
\* calls, and ends by returning a str and never by raising: the text of the
\* answer, 'Error: ...' with the message of a failure that is not transient,
\* or the rate-limited message after 3 transient failures; for an empty or
\* whitespace-only prompt it returns '' and complete is not called.
C32_GenerateBoundedTotal ==
    /\ Len(gen.hist) <= 3
    /\ \A i \in 2..Len(gen.hist) : TransientFailure(gen.hist[i - 1])
    /\ Len(gen.slept) >= Len(gen.hist) - 1
    /\ gen.pc = "try" => Len(gen.slept) = Len(gen.hist)
    /\ gen.pc = "done" =>
        /\ gen.result.kind = "return" /\ gen.result.val.t = "str"
        /\ Blank(gen.prompt) => (gen.hist = <<>> /\ gen.result.val = Str(<<>>))
        /\ (gen.hist # <<>> /\ Last(gen.hist).exc # NoErr
                /\ ~TransientFailure(Last(gen.hist)))
            => gen.result.val = ErrorText(Last(gen.hist).exc)
        /\ (Len(gen.hist) = 3 /\ \A i \in 1..3 : TransientFailure(gen.hist[i]))
            => gen.result.val = Unavailable
====
